---- MODULE Spec2Model ----
(***************************************************************************)
(* solace-rs: the outbound message builder, the shared Message accessors   *)
(* and the Session operations, as a state machine over the native          *)
(* (solClient) message heap.  Every native call returns a status code the  *)
(* environment chooses; the wrappers are translated from src/src.          *)
(***************************************************************************)
EXTENDS Integers, Sequences, FiniteSets, TLC

VARIABLES
    builder,    \* Option<OutboundMessageBuilder>: <<>> or <<record of the five fields>>
    native,     \* the native message heap: handle -> what solClient holds for it
    owner,      \* handle -> "none" | "owned" | "dropped": the OutboundMessage value
    session,    \* the Session struct: its two fields
    built,      \* handle -> the builder that build consumed to make the message (history)
    sess,       \* the Session value, the native session behind it, and its Context
    threads,    \* thread -> the Session call it is inside (concurrent use of one Session)
    lastOp      \* the last wrapper call: its name, argument, result and native calls

vars == <<builder, native, owner, session, built, sess, threads, lastOp>>

-----------------------------------------------------------------------------
(* Bounds and input sets *)

MaxLen == 2

\* byte values the inputs are drawn from: the terminator, an ASCII letter,
\* and a byte that is never valid UTF-8
Bytes == {0, 97, 255}

\* the message handles solClient_msg_alloc can hand out
Handles == {"m1"}

\* native status codes the environment returns: SOLCLIENT_FAIL, SOLCLIENT_OK,
\* SOLCLIENT_IN_PROGRESS, SOLCLIENT_NOT_FOUND, and a value outside the enum
RetCodes == {-1, 0, 2, 5, 99}

RECURSIVE SeqsUpTo(_, _)
SeqsUpTo(S, n) ==
    IF n = 0 THEN {<<>>}
    ELSE LET shorter == SeqsUpTo(S, n - 1)
         IN shorter \cup {Append(s, x) : s \in {t \in shorter : Len(t) = n - 1}, x \in S}

\* Into<Vec<u8>> arguments: every byte string of at most MaxLen bytes
ByteStrings == SeqsUpTo(Bytes, MaxLen)

\* the enum values the setters are given (a value is only passed through to the
\* native set call, so two of each enum's three are drawn)
DeliveryModes == {"Direct", "Persistent"}
ClassesOfService == {"One", "Three"}
DestinationTypes == {"Topic", "Queue"}
DestinationNames == {<<97>>, <<97, 98>>}

-----------------------------------------------------------------------------
(* Option and Result values *)

None == <<>>
Some(x) == <<x>>

Res(tag, val) == [tag |-> tag, val |-> val]
Call(fn, code) == [fn |-> fn, code |-> code]

-----------------------------------------------------------------------------
(* Status translator *)

\* SolClientReturnCode::from_i32: Some(variant) for a known code, else None
from_i32(code) ==
    CASE code = 0  -> Some("Ok")
      [] code = -1 -> Some("Fail")
      [] code = 2  -> Some("InProgress")
      [] code = 5  -> Some("NotFound")
      [] OTHER     -> None

-----------------------------------------------------------------------------
(* C strings *)

HasNul(v) == \E i \in 1..Len(v) : v[i] = 0

\* CString::new: rejects an interior nul, else owns the bytes plus a terminator
CString_new(v) ==
    IF HasNul(v) THEN Res("NulError", <<>>)
    ELSE Res("Ok", Some(Append(v, 0)))

\* what a C reader sees behind a char pointer: the bytes before the first nul
RECURSIVE CStrRead(_)
CStrRead(buf) ==
    IF buf = <<>> \/ Head(buf) = 0 THEN <<>>
    ELSE <<Head(buf)>> \o CStrRead(Tail(buf))

\* CStr::from_ptr: the bytes the pointer leads to, up to and with the terminator
CStr_from_ptr(buf) == Append(CStrRead(buf), 0)

\* str::from_utf8 over the model's bytes: ASCII is valid, 0xFF never is
IsUtf8(bytes) == \A i \in 1..Len(bytes) : bytes[i] < 128

\* CStr::to_str: the text without the terminator, or Utf8Error
CStr_to_str(cstr) ==
    LET bytes == SubSeq(cstr, 1, Len(cstr) - 1)
    IN IF IsUtf8(bytes) THEN Res("Ok", Some(bytes)) ELSE Res("Utf8Error", <<>>)

\* CStr::to_string_lossy: invalid bytes become U+FFFD
CStr_to_string_lossy(cstr) ==
    [i \in 1..(Len(cstr) - 1) |-> IF cstr[i] < 128 THEN cstr[i] ELSE 65533]

-----------------------------------------------------------------------------
(* Enum conversions *)

\* DeliveryMode as u32
DeliveryMode_as_u32(mode) ==
    CASE mode = "Direct"        -> 0
      [] mode = "Persistent"    -> 16
      [] mode = "NonPersistent" -> 32

\* impl From<ClassOfService> for u32
ClassOfService_into_u32(val) ==
    CASE val = "One"   -> 0
      [] val = "Two"   -> 1
      [] val = "Three" -> 2

\* DestinationType::to_i32 (the solClient_destinationType values)
DestinationType_to_i32(t) ==
    CASE t = "Topic" -> 0
      [] t = "Queue" -> 1

\* the DestinationType a native destType decodes to
DestinationType_from_i32(n) ==
    CASE n = 0  -> "Topic"
      [] n = 1  -> "Queue"
      [] OTHER  -> "Null"

\* MessageDestination as the application builds it: a kind and a CString name
MessageDestinations ==
    {[dest_type |-> t, dest |-> Append(n, 0)] : t \in DestinationTypes, n \in DestinationNames}

\* ffi::solClient_destination { destType: NULL_DESTINATION, dest: null }
NullDestStruct == [destType |-> -1, dest |-> <<>>]

\* MessageDestination::from(solClient_destination): copies the name out
MessageDestination_from(dest_struct) ==
    [dest_type |-> DestinationType_from_i32(dest_struct.destType),
     dest      |-> CStr_from_ptr(dest_struct.dest)]

-----------------------------------------------------------------------------
(* The native message heap (solClient), as the wrappers use it *)

\* a handle's native state; a handle that is not allocated holds nothing
NativeMsg(st, frees) ==
    [st |-> st, frees |-> frees, delivery_mode |-> None, destination |-> None,
     attachment |-> None, correlation_id |-> None, class_of_service |-> None]

\* a solClient_msg_set* call: the value is copied in when the call returns SOLCLIENT_OK
native_set(m, field, value, code) ==
    IF code = 0 THEN [m EXCEPT ![field] = Some(value)] ELSE m

\* solClient_msg_free: a call is counted; SOLCLIENT_OK releases the handle's memory
native_free(m, code) ==
    IF code = 0 THEN NativeMsg("freed", m.frees + 1)
    ELSE [m EXCEPT !.frees = m.frees + 1]

\* the codes a solClient_msg_get* call can return for a field: SOLCLIENT_OK only
\* when the field is held, SOLCLIENT_NOT_FOUND only when it is not
native_get_codes(m, field) ==
    {c \in RetCodes : (c = 0 => m[field] # None) /\ (c = 5 => m[field] = None)}

-----------------------------------------------------------------------------
(* OutboundMessageBuilder *)

\* OutboundMessageBuilder::new
new ==
    [delivery_mode |-> None, destination |-> None, message |-> None,
     correlation_id |-> None, class_of_service |-> None]

set_delivery_mode(self, mode) == [self EXCEPT !.delivery_mode = Some(mode)]

set_destination(self, destination) == [self EXCEPT !.destination = Some(destination)]

set_class_of_service(self, cos) == [self EXCEPT !.class_of_service = Some(cos)]

\* Result<Self>: val holds the builder on Ok; on Err the builder (moved in) is dropped
set_binary_string(self, message) ==
    LET c == CString_new(message)
    IN IF c.tag = "Ok" THEN Res("Ok", Some([self EXCEPT !.message = c.val]))
       ELSE Res("InvalidArgs", None)

set_correlation_id(self, id) ==
    LET c == CString_new(id)
    IN IF c.tag = "Ok" THEN Res("Ok", Some([self EXCEPT !.correlation_id = c.val]))
       ELSE Res("InvalidArgs", None)

-----------------------------------------------------------------------------
(* OutboundMessageBuilder::build, step by step.  script gives the status   *)
(* code each native call returns; calls is the native calls made so far,   *)
(* m the native state of the handle that was allocated.                    *)

BuildSteps == {"alloc", "delivery_mode", "destination", "message", "correlation_id",
               "class_of_service"}

\* the scripts that differ in what build does: it returns at the first code
\* that is not Ok, so at most one code of a script is other than SOLCLIENT_OK
BuildScripts ==
    {[s \in BuildSteps |-> 0]} \cup
    {[s \in BuildSteps |-> IF s = bad THEN c ELSE 0] : bad \in BuildSteps, c \in RetCodes \ {0}}

BuildRet(tag, val, calls, m) == [res |-> Res(tag, val), calls |-> calls, m |-> m]

\* a class of service applied even when none was set: the lowest one as a default
build_class_of_service_defaulted(self, script, calls, m) ==
    LET cos    == IF self.class_of_service # None THEN self.class_of_service[1] ELSE "One"
        code   == script["class_of_service"]
        calls2 == Append(calls, Call("solClient_msg_setClassOfService", code))
        m2     == native_set(m, "class_of_service", ClassOfService_into_u32(cos), code)
    IN IF Some("Ok") # from_i32(code)
       THEN BuildRet("SolClientError", None, calls2, m2)
       ELSE BuildRet("Ok", None, calls2, m2)

\* outbound.rs 167-176
build_class_of_service(self, script, calls, m) ==
    IF self.class_of_service # None THEN
        LET code   == script["class_of_service"]
            calls2 == Append(calls, Call("solClient_msg_setClassOfService", code))
            m2     == native_set(m, "class_of_service",
                                 ClassOfService_into_u32(self.class_of_service[1]), code)
        IN IF Some("Ok") # from_i32(code)
           THEN BuildRet("SolClientError", None, calls2, m2)
           ELSE BuildRet("Ok", None, calls2, m2)
    ELSE BuildRet("Ok", None, calls, m)

\* the status of solClient_msg_setCorrelationId not checked: build goes on
build_correlation_id_unchecked(self, script, calls, m) ==
    IF self.correlation_id # None THEN
        LET code   == script["correlation_id"]
            calls2 == Append(calls, Call("solClient_msg_setCorrelationId", code))
            m2     == native_set(m, "correlation_id", CStrRead(self.correlation_id[1]), code)
        IN build_class_of_service(self, script, calls2, m2)
    ELSE build_class_of_service(self, script, calls, m)

\* the payload's pointer handed to solClient_msg_setCorrelationId in place of the id's
build_correlation_id_from_message(self, script, calls, m) ==
    IF self.correlation_id # None THEN
        LET code   == script["correlation_id"]
            calls2 == Append(calls, Call("solClient_msg_setCorrelationId", code))
            m2     == native_set(m, "correlation_id", CStrRead(self.message[1]), code)
        IN IF from_i32(code) # Some("Ok")
           THEN BuildRet("SolClientError", None, calls2, m2)
           ELSE build_class_of_service(self, script, calls2, m2)
    ELSE build_class_of_service(self, script, calls, m)

\* outbound.rs 158-165
build_correlation_id(self, script, calls, m) ==
    IF self.correlation_id # None THEN
        LET code   == script["correlation_id"]
            calls2 == Append(calls, Call("solClient_msg_setCorrelationId", code))
            m2     == native_set(m, "correlation_id", CStrRead(self.correlation_id[1]), code)
        IN IF from_i32(code) # Some("Ok")
           THEN BuildRet("SolClientError", None, calls2, m2)
           ELSE build_class_of_service(self, script, calls2, m2)
    ELSE build_class_of_service(self, script, calls, m)

\* the payload treated as optional: a missing payload is skipped
build_message_optional(self, script, calls, m) ==
    IF self.message = None THEN build_correlation_id(self, script, calls, m)
    ELSE
        LET code   == script["message"]
            calls2 == Append(calls, Call("solClient_msg_setBinaryAttachmentString", code))
            m2     == native_set(m, "attachment", CStrRead(self.message[1]), code)
        IN IF from_i32(code) # Some("Ok")
           THEN BuildRet("SolClientError", None, calls2, m2)
           ELSE build_correlation_id(self, script, calls2, m2)

\* the payload's presence checked only after the optional fields were applied
build_message_checked_late(self, script, calls, m) ==
    IF self.message = None THEN
        LET r == build_correlation_id(self, script, calls, m)
        IN IF r.res.tag = "Ok" THEN BuildRet("MissingArgs", Some("message"), r.calls, r.m)
           ELSE r
    ELSE
        LET code   == script["message"]
            calls2 == Append(calls, Call("solClient_msg_setBinaryAttachmentString", code))
            m2     == native_set(m, "attachment", CStrRead(self.message[1]), code)
        IN IF from_i32(code) # Some("Ok")
           THEN BuildRet("SolClientError", None, calls2, m2)
           ELSE build_correlation_id(self, script, calls2, m2)

\* outbound.rs 146-156
build_message(self, script, calls, m) ==
    IF self.message = None THEN BuildRet("MissingArgs", Some("message"), calls, m)
    ELSE
        LET code   == script["message"]
            calls2 == Append(calls, Call("solClient_msg_setBinaryAttachmentString", code))
            m2     == native_set(m, "attachment", CStrRead(self.message[1]), code)
        IN IF from_i32(code) # Some("Ok")
           THEN BuildRet("SolClientError", None, calls2, m2)
           ELSE build_correlation_id(self, script, calls2, m2)

\* the destination's kind lost: destType is always the topic kind
build_destination_as_topic(self, script, calls, m) ==
    IF self.destination = None THEN BuildRet("MissingArgs", Some("destination"), calls, m)
    ELSE
        LET destination == [destType |-> DestinationType_to_i32("Topic"),
                            dest     |-> self.destination[1].dest]
            code   == script["destination"]
            calls2 == Append(calls, Call("solClient_msg_setDestination", code))
            m2     == native_set(m, "destination",
                                 [destType |-> destination.destType,
                                  dest     |-> CStrRead(destination.dest)], code)
        IN IF from_i32(code) # Some("Ok")
           THEN BuildRet("SolClientError", None, calls2, m2)
           ELSE build_message(self, script, calls2, m2)

\* outbound.rs 126-144
build_destination(self, script, calls, m) ==
    IF self.destination = None THEN BuildRet("MissingArgs", Some("destination"), calls, m)
    ELSE
        LET destination == [destType |-> DestinationType_to_i32(self.destination[1].dest_type),
                            dest     |-> self.destination[1].dest]
            code   == script["destination"]
            calls2 == Append(calls, Call("solClient_msg_setDestination", code))
            m2     == native_set(m, "destination",
                                 [destType |-> destination.destType,
                                  dest     |-> CStrRead(destination.dest)], code)
        IN IF from_i32(code) # Some("Ok")
           THEN BuildRet("SolClientError", None, calls2, m2)
           ELSE build_message(self, script, calls2, m2)

\* outbound.rs 117-124
build_delivery_mode(self, script, calls, m) ==
    IF self.delivery_mode = None THEN BuildRet("MissingArgs", Some("delivery_mode"), calls, m)
    ELSE
        LET code   == script["delivery_mode"]
            calls2 == Append(calls, Call("solClient_msg_setDeliveryMode", code))
            m2     == native_set(m, "delivery_mode",
                                 DeliveryMode_as_u32(self.delivery_mode[1]), code)
        IN IF from_i32(code) # Some("Ok")
           THEN BuildRet("SolClientError", None, calls2, m2)
           ELSE build_destination(self, script, calls2, m2)

\* outbound.rs 109-177: m is the unallocated handle solClient_msg_alloc would fill.
\* No path of build calls solClient_msg_free: an Err return leaves the raw
\* msg_ptr behind, allocated.
build(self, script, m) ==
    LET code  == script["alloc"]
        calls == <<Call("solClient_msg_alloc", code)>>
    IN IF from_i32(code) # Some("Ok")
       THEN BuildRet("MessageAlocFailure", None, calls, m)
       ELSE build_delivery_mode(self, script, calls, NativeMsg("alloc", 0))

-----------------------------------------------------------------------------
(* Message accessors (trait Message).  m is the native state behind the    *)
(* handle get_raw_message_ptr returns, code the native call's status.      *)

\* message.rs 54-75
get_payload_as_bytes(m, code) ==
    LET buffer == IF code = 0 THEN m.attachment[1] ELSE <<>>
    IN IF from_i32(code) # Some("Ok") THEN Res("SolaceError", None)
       ELSE Res("Ok", Some(buffer))

\* message.rs 77-98
get_payload_as_str(m, code) ==
    LET buffer == IF code = 0 THEN Append(m.attachment[1], 0) ELSE <<>>
    IN IF from_i32(code) # Some("Ok") THEN Res("SolaceError", None)
       ELSE LET s == CStr_to_str(CStr_from_ptr(buffer))
            IN IF s.tag = "Ok" THEN s ELSE Res("SolaceError", None)

\* message.rs 109-121
get_correlation_id(m, code) ==
    LET buffer == IF code = 0 THEN Append(m.correlation_id[1], 0) ELSE <<>>
    IN IF from_i32(code) # Some("Ok") THEN Res("SolaceError", None)
       ELSE LET s == CStr_to_str(CStr_from_ptr(buffer))
            IN IF s.tag = "Ok" THEN s ELSE Res("SolaceError", None)

\* what MessageDestination::from may do with the struct it is handed.  A struct
\* the native call did not fill still has dest = null, and reading a C string
\* behind a null pointer is undefined: the build may crash there or produce a value.
FromOutcomes(dest_struct) ==
    IF dest_struct.dest = <<>> THEN {"value", "crash"} ELSE {"value"}

\* message.rs 132-157: the struct starts as { NULL_DESTINATION, null } and the
\* native call fills it when it returns SOLCLIENT_OK
get_destination(m, code, outcome) ==
    LET dest_struct ==
            IF code = 0
            THEN [destType |-> m.destination[1].destType,
                  dest     |-> Append(m.destination[1].dest, 0)]
            ELSE NullDestStruct
    IN IF from_i32(code) = Some("NotFound") THEN Res("Ok", None)
       ELSE IF from_i32(code) = Some("Fail") THEN Res("SolaceError", None)
       ELSE IF outcome = "crash" THEN Res("Crash", None)
       ELSE Res("Ok", Some(MessageDestination_from(dest_struct)))

-----------------------------------------------------------------------------
(* OutboundMessage and Session *)

\* outbound.rs 28-35: one solClient_msg_free call; a status that is not Ok is only logged
drop_OutboundMessage(m, code) ==
    [calls |-> <<Call("solClient_msg_free", code)>>, m |-> native_free(m, code)]

\* publish freeing the handle itself after the send, and the drop freeing it again
publish_frees_and_drops(m, send_code, free_code) ==
    LET send == Call("solClient_session_sendMsg", send_code)
        f    == drop_OutboundMessage(m, free_code)
        d    == drop_OutboundMessage(f.m, free_code)
    IN [res     |-> IF from_i32(send_code) = Some("Ok") THEN Res("Ok", None)
                    ELSE Res("Panic", None),
        calls   |-> <<send>> \o f.calls \o d.calls,
        m       |-> d.m,
        message |-> "dropped"]

\* publish taking &OutboundMessage: nothing is dropped when it ends
publish_borrowing(m, send_code, free_code) ==
    [res     |-> IF from_i32(send_code) = Some("Ok") THEN Res("Ok", None)
                 ELSE Res("Panic", None),
     calls   |-> <<Call("solClient_session_sendMsg", send_code)>>,
     m       |-> m,
     message |-> "owned"]

\* the message dropped before its handle is handed to the native send
publish_sends_after_drop(m, send_code, free_code) ==
    LET d    == drop_OutboundMessage(m, free_code)
        send == Call("solClient_session_sendMsg", send_code)
    IN [res     |-> IF from_i32(send_code) = Some("Ok") THEN Res("Ok", None)
                    ELSE Res("Panic", None),
        calls   |-> d.calls \o <<send>>,
        m       |-> d.m,
        message |-> "dropped"]

\* publish returning a recoverable error where the code asserts
publish_recoverable(m, send_code, free_code) ==
    LET send == Call("solClient_session_sendMsg", send_code)
        d    == drop_OutboundMessage(m, free_code)
    IN [res     |-> IF from_i32(send_code) = Some("Ok") THEN Res("Ok", None)
                    ELSE Res("SendFailure", None),
        calls   |-> <<send>> \o d.calls,
        m       |-> d.m,
        message |-> "dropped"]

\* session.rs 26-36: message is taken by value, so it is dropped when publish
\* ends, by return or by the unwinding of the failed assertion
publish(m, send_code, free_code) ==
    LET send == Call("solClient_session_sendMsg", send_code)
        d    == drop_OutboundMessage(m, free_code)
    IN [res     |-> IF from_i32(send_code) = Some("Ok") THEN Res("Ok", None)
                    ELSE Res("Panic", None),
        calls   |-> <<send>> \o d.calls,
        m       |-> d.m,
        message |-> "dropped"]

\* the topic handed to the native call as a C string without the nul check
subscribe_unchecked(topic, code) ==
    [res   |-> IF from_i32(code) # Some("Ok")
               THEN Res("SubscriptionFailure", Some(CStr_to_string_lossy(CStr_from_ptr(topic))))
               ELSE Res("Ok", None),
     calls |-> <<Call("solClient_session_topicSubscribe", code)>>]

\* session.rs 38-52.  The ? turns CString::new's NulError into a SessionError
\* through its From impl (declared outside these files); the error is named
\* InvalidArgs here, as the builder's MessageBuilderError names it.
subscribe(topic, code) ==
    LET c_topic == CString_new(topic)
    IN IF c_topic.tag # "Ok" THEN [res |-> Res("InvalidArgs", None), calls |-> <<>>]
       ELSE [res   |-> IF from_i32(code) # Some("Ok")
                       THEN Res("SubscriptionFailure",
                                Some(CStr_to_string_lossy(c_topic.val[1])))
                       ELSE Res("Ok", None),
             calls |-> <<Call("solClient_session_topicSubscribe", code)>>]

\* unsubscribe calling the destroy entry point on the session handle
unsubscribe_destroying(topic, code) ==
    LET c_topic == CString_new(topic)
    IN IF c_topic.tag # "Ok" THEN [res |-> Res("InvalidArgs", None), calls |-> <<>>]
       ELSE [res   |-> IF from_i32(code) # Some("Ok")
                       THEN Res("UnsubscriptionFailure",
                                Some(CStr_to_string_lossy(c_topic.val[1])))
                       ELSE Res("Ok", None),
             calls |-> <<Call("solClient_session_destroy", code)>>]

\* unsubscribe reporting its failure with subscribe's error variant
unsubscribe_as_subscription_failure(topic, code) ==
    LET c_topic == CString_new(topic)
    IN IF c_topic.tag # "Ok" THEN [res |-> Res("InvalidArgs", None), calls |-> <<>>]
       ELSE [res   |-> IF from_i32(code) # Some("Ok")
                       THEN Res("SubscriptionFailure",
                                Some(CStr_to_string_lossy(c_topic.val[1])))
                       ELSE Res("Ok", None),
             calls |-> <<Call("solClient_session_topicUnsubscribe", code)>>]

\* session.rs 54-68
unsubscribe(topic, code) ==
    LET c_topic == CString_new(topic)
    IN IF c_topic.tag # "Ok" THEN [res |-> Res("InvalidArgs", None), calls |-> <<>>]
       ELSE [res   |-> IF from_i32(code) # Some("Ok")
                       THEN Res("UnsubscriptionFailure",
                                Some(CStr_to_string_lossy(c_topic.val[1])))
                       ELSE Res("Ok", None),
             calls |-> <<Call("solClient_session_topicUnsubscribe", code)>>]

-----------------------------------------------------------------------------
(* Session lifecycle.  s is the record sess: the Session value, the native   *)
(* session behind _session_pt (and the solClient_session_destroy calls made  *)
(* on it), the references to the Context (the Session's field and the        *)
(* application's own), the Context, and the order of the steps of a drop.    *)

SessInit ==
    [value |-> "owned", native |-> "alive", destroys |-> 0,
     context_refs |-> 2, app_context |-> TRUE, context |-> "alive", order |-> <<>>]

\* solClient_session_destroy: a call is counted; SOLCLIENT_OK destroys the session
native_session_destroy(s, code) ==
    [s EXCEPT !.destroys = @ + 1,
              !.native = IF code = 0 THEN "destroyed" ELSE @,
              !.order = Append(@, "solClient_session_destroy")]

\* a Context reference released; the Context is destroyed with its last reference
release_context(s) ==
    [s EXCEPT !.context_refs = @ - 1,
              !.context = IF s.context_refs = 1 THEN "destroyed" ELSE @,
              !.order = Append(@, "context_release")]

\* the destroy call made again when it did not return Ok
session_drop_retrying(s, code) ==
    LET first == native_session_destroy(s, code)
    IN IF from_i32(code) # Some("Ok")
       THEN [calls |-> <<Call("solClient_session_destroy", code),
                         Call("solClient_session_destroy", code)>>,
             res   |-> Res("Ok", None),
             s     |-> native_session_destroy(first, code)]
       ELSE [calls |-> <<Call("solClient_session_destroy", code)>>,
             res   |-> Res("Ok", None),
             s     |-> first]

\* Drop::drop of Session: one destroy call, a failure only warned
session_drop(s, code) ==
    [calls |-> <<Call("solClient_session_destroy", code)>>,
     res   |-> Res("Ok", None),
     s     |-> native_session_destroy(s, code)]

\* the context reference given up before the session handle is destroyed
drop_Session_context_first(s, code) ==
    LET d == session_drop(release_context(s), code)
    IN [calls |-> d.calls, res |-> d.res, s |-> [d.s EXCEPT !.value = "dropped"]]

\* dropping a Session: Drop::drop runs first, then the
\* fields are dropped: _session_pt is a raw pointer, context gives up its reference
drop_Session(s, code) ==
    LET d == session_drop(s, code)
    IN [calls |-> d.calls, res |-> d.res,
        s |-> [release_context(d.s) EXCEPT !.value = "dropped"]]

\* what the native calls of a Session operation do to the native session
RECURSIVE native_session_apply(_, _)
native_session_apply(s, calls) ==
    IF calls = <<>> THEN s
    ELSE native_session_apply(
            IF Head(calls).fn = "solClient_session_destroy"
            THEN native_session_destroy(s, Head(calls).code) ELSE s,
            Tail(calls))

\* the threads that share the Session (Session is Send + Sync, session.rs 22-23)
Threads == {"t1", "t2"}

\* a thread outside every Session call
Idle == [op |-> "idle", topic |-> <<>>, h |-> "-"]

\* the topics the threads subscribe to: a text and a byte string with a nul
SessionTopics == {<<97>>, <<97, 0>>}

\* a builder with the required fields set, as the application leaves it before build
ReadyBuilder ==
    set_binary_string(
        set_destination(set_delivery_mode(new, "Direct"),
                        [dest_type |-> "Topic", dest |-> <<97, 0>>]),
        <<97>>).val[1]

-----------------------------------------------------------------------------
(* The state machine *)

Op(op, h, arg, res, calls) == [op |-> op, h |-> h, arg |-> arg, res |-> res, calls |-> calls]

Init ==
    /\ builder = None
    /\ native = [h \in Handles |-> NativeMsg("unalloc", 0)]
    /\ owner = [h \in Handles |-> "none"]
    /\ session = [_session_pt |-> "s1", context |-> "ctx"]
    /\ built = [h \in Handles |-> None]
    /\ sess = SessInit
    /\ threads = [t \in Threads |-> Idle]
    /\ lastOp = Op("init", "-", None, Res("Ok", None), <<>>)

\* a handle solClient_msg_alloc has not handed out yet
CanAlloc == \E h \in Handles : native[h].st = "unalloc"

New ==
    /\ builder = None
    /\ CanAlloc
    /\ builder' = Some(new)
    /\ lastOp' = Op("new", "-", None, Res("Ok", None), <<>>)
    /\ UNCHANGED <<native, owner, session, built>>
    /\ UNCHANGED <<sess, threads>>

SetDeliveryMode ==
    /\ builder # None
    /\ \E mode \in DeliveryModes :
        /\ builder' = Some(set_delivery_mode(builder[1], mode))
        /\ lastOp' = Op("set_delivery_mode", "-", Some(mode), Res("Ok", None), <<>>)
    /\ UNCHANGED <<native, owner, session, built>>
    /\ UNCHANGED <<sess, threads>>

SetDestination ==
    /\ builder # None
    /\ \E destination \in MessageDestinations :
        /\ builder' = Some(set_destination(builder[1], destination))
        /\ lastOp' = Op("set_destination", "-", Some(destination), Res("Ok", None), <<>>)
    /\ UNCHANGED <<native, owner, session, built>>
    /\ UNCHANGED <<sess, threads>>

SetClassOfService ==
    /\ builder # None
    /\ \E cos \in ClassesOfService :
        /\ builder' = Some(set_class_of_service(builder[1], cos))
        /\ lastOp' = Op("set_class_of_service", "-", Some(cos), Res("Ok", None), <<>>)
    /\ UNCHANGED <<native, owner, session, built>>
    /\ UNCHANGED <<sess, threads>>

SetBinaryString ==
    /\ builder # None
    /\ \E message \in ByteStrings :
        LET r == set_binary_string(builder[1], message)
        IN /\ builder' = r.val
           /\ lastOp' = Op("set_binary_string", "-", Some(message), Res(r.tag, None), <<>>)
    /\ UNCHANGED <<native, owner, session, built>>
    /\ UNCHANGED <<sess, threads>>

SetCorrelationId ==
    /\ builder # None
    /\ \E id \in ByteStrings :
        LET r == set_correlation_id(builder[1], id)
        IN /\ builder' = r.val
           /\ lastOp' = Op("set_correlation_id", "-", Some(id), Res(r.tag, None), <<>>)
    /\ UNCHANGED <<native, owner, session, built>>
    /\ UNCHANGED <<sess, threads>>

\* build consumes the builder; the OutboundMessage exists only on Ok
Build ==
    /\ builder # None
    /\ CanAlloc
    /\ \E script \in BuildScripts :
        LET h == CHOOSE x \in Handles : native[x].st = "unalloc"
            r == build(builder[1], script, native[h])
        IN /\ native' = [native EXCEPT ![h] = r.m]
           /\ owner' = [owner EXCEPT ![h] = IF r.res.tag = "Ok" THEN "owned" ELSE @]
           /\ built' = [built EXCEPT ![h] = IF r.res.tag = "Ok" THEN builder ELSE @]
           /\ lastOp' = Op("build", h, builder, r.res, r.calls)
    /\ builder' = None
    /\ UNCHANGED session
    /\ UNCHANGED <<sess, threads>>

GetPayloadAsBytes ==
    /\ \E h \in Handles :
        /\ owner[h] = "owned"
        /\ \E code \in native_get_codes(native[h], "attachment") :
            lastOp' = Op("get_payload_as_bytes", h, None,
                         get_payload_as_bytes(native[h], code),
                         <<Call("solClient_msg_getBinaryAttachmentPtr", code)>>)
    /\ UNCHANGED <<builder, native, owner, session, built>>
    /\ UNCHANGED <<sess, threads>>

GetPayloadAsStr ==
    /\ \E h \in Handles :
        /\ owner[h] = "owned"
        /\ \E code \in native_get_codes(native[h], "attachment") :
            lastOp' = Op("get_payload_as_str", h, None,
                         get_payload_as_str(native[h], code),
                         <<Call("solClient_msg_getBinaryAttachmentString", code)>>)
    /\ UNCHANGED <<builder, native, owner, session, built>>
    /\ UNCHANGED <<sess, threads>>

GetCorrelationId ==
    /\ \E h \in Handles :
        /\ owner[h] = "owned"
        /\ \E code \in native_get_codes(native[h], "correlation_id") :
            lastOp' = Op("get_correlation_id", h, None,
                         get_correlation_id(native[h], code),
                         <<Call("solClient_msg_getCorrelationId", code)>>)
    /\ UNCHANGED <<builder, native, owner, session, built>>
    /\ UNCHANGED <<sess, threads>>

GetDestination ==
    /\ \E h \in Handles :
        /\ owner[h] = "owned"
        /\ \E code \in native_get_codes(native[h], "destination") :
           \E outcome \in FromOutcomes(IF code = 0 THEN [dest |-> <<0>>] ELSE NullDestStruct) :
            lastOp' = Op("get_destination", h, None,
                         get_destination(native[h], code, outcome),
                         <<Call("solClient_msg_getDestination", code)>>)
    /\ UNCHANGED <<builder, native, owner, session, built>>
    /\ UNCHANGED <<sess, threads>>

\* the OutboundMessage goes out of scope
DropMessage ==
    /\ \E h \in Handles :
        /\ owner[h] = "owned"
        /\ \E code \in RetCodes :
            LET d == drop_OutboundMessage(native[h], code)
            IN /\ native' = [native EXCEPT ![h] = d.m]
               /\ owner' = [owner EXCEPT ![h] = "dropped"]
               /\ lastOp' = Op("drop", h, None, Res("Ok", None), d.calls)
    /\ UNCHANGED <<builder, session, built>>
    /\ UNCHANGED <<sess, threads>>

Publish ==
    /\ \E h \in Handles :
        /\ owner[h] = "owned"
        /\ \E send_code \in RetCodes, free_code \in RetCodes :
            LET r == publish(native[h], send_code, free_code)
            IN /\ native' = [native EXCEPT ![h] = r.m]
               /\ owner' = [owner EXCEPT ![h] = r.message]
               /\ lastOp' = Op("publish", h, None, r.res, r.calls)
    /\ UNCHANGED <<builder, session, built>>
    /\ UNCHANGED <<sess, threads>>

Subscribe ==
    /\ \E topic \in ByteStrings, code \in RetCodes :
        LET r == subscribe(topic, code)
        IN lastOp' = Op("subscribe", "-", Some(topic), r.res, r.calls)
    /\ UNCHANGED <<builder, native, owner, session, built>>
    /\ UNCHANGED <<sess, threads>>

Unsubscribe ==
    /\ \E topic \in ByteStrings, code \in RetCodes :
        LET r == unsubscribe(topic, code)
        IN lastOp' = Op("unsubscribe", "-", Some(topic), r.res, r.calls)
    /\ UNCHANGED <<builder, native, owner, session, built>>
    /\ UNCHANGED <<sess, threads>>

Next ==
    \/ New
    \/ SetDeliveryMode
    \/ SetDestination
    \/ SetClassOfService
    \/ SetBinaryString
    \/ SetCorrelationId
    \/ Build
    \/ GetPayloadAsBytes
    \/ GetPayloadAsStr
    \/ GetCorrelationId
    \/ GetDestination
    \/ DropMessage
    \/ Publish

Spec == Init /\ [][Next]_vars

\* the Session with the application about to build the message it publishes
InitSession ==
    /\ builder = Some(ReadyBuilder)
    /\ native = [h \in Handles |-> NativeMsg("unalloc", 0)]
    /\ owner = [h \in Handles |-> "none"]
    /\ session = [_session_pt |-> "s1", context |-> "ctx"]
    /\ built = [h \in Handles |-> None]
    /\ sess = SessInit
    /\ threads = [t \in Threads |-> Idle]
    /\ lastOp = Op("init", "-", None, Res("Ok", None), <<>>)

\* a thread calls publish: the message is moved into the call
BeginPublish ==
    /\ sess.value = "owned"
    /\ \E t \in Threads, h \in Handles :
        /\ threads[t] = Idle
        /\ owner[h] = "owned"
        /\ owner' = [owner EXCEPT ![h] = "in_publish"]
        /\ threads' = [threads EXCEPT ![t] = [op |-> "publish", topic |-> <<>>, h |-> h]]
    /\ UNCHANGED <<builder, native, session, built, sess, lastOp>>

\* publish sends, then drops the message it was given
EndPublish ==
    /\ \E t \in Threads :
        /\ threads[t].op = "publish"
        /\ \E send_code \in RetCodes, free_code \in RetCodes :
            LET h == threads[t].h
                r == publish(native[h], send_code, free_code)
            IN /\ native' = [native EXCEPT ![h] = r.m]
               /\ owner' = [owner EXCEPT ![h] = r.message]
               /\ sess' = native_session_apply(sess, r.calls)
               /\ lastOp' = Op("publish", h, None, r.res, r.calls)
        /\ threads' = [threads EXCEPT ![t] = Idle]
    /\ UNCHANGED <<builder, session, built>>

BeginSubscribe ==
    /\ sess.value = "owned"
    /\ \E t \in Threads, topic \in SessionTopics :
        /\ threads[t] = Idle
        /\ threads' = [threads EXCEPT ![t] = [op |-> "subscribe", topic |-> topic, h |-> "-"]]
    /\ UNCHANGED <<builder, native, owner, session, built, sess, lastOp>>

EndSubscribe ==
    /\ \E t \in Threads :
        /\ threads[t].op = "subscribe"
        /\ \E code \in RetCodes :
            LET r == subscribe(threads[t].topic, code)
            IN /\ sess' = native_session_apply(sess, r.calls)
               /\ lastOp' = Op("subscribe", "-", Some(threads[t].topic), r.res, r.calls)
        /\ threads' = [threads EXCEPT ![t] = Idle]
    /\ UNCHANGED <<builder, native, owner, session, built>>

BeginUnsubscribe ==
    /\ sess.value = "owned"
    /\ \E t \in Threads, topic \in SessionTopics :
        /\ threads[t] = Idle
        /\ threads' = [threads EXCEPT ![t] = [op |-> "unsubscribe", topic |-> topic, h |-> "-"]]
    /\ UNCHANGED <<builder, native, owner, session, built, sess, lastOp>>

EndUnsubscribe ==
    /\ \E t \in Threads :
        /\ threads[t].op = "unsubscribe"
        /\ \E code \in RetCodes :
            LET r == unsubscribe(threads[t].topic, code)
            IN /\ sess' = native_session_apply(sess, r.calls)
               /\ lastOp' = Op("unsubscribe", "-", Some(threads[t].topic), r.res, r.calls)
        /\ threads' = [threads EXCEPT ![t] = Idle]
    /\ UNCHANGED <<builder, native, owner, session, built>>

\* the Session goes out of scope: no call borrows it any more.  The native
\* destroy is given &mut _session_pt and nulls it when it succeeds.
DropSession ==
    /\ sess.value = "owned"
    /\ \A t \in Threads : threads[t] = Idle
    /\ \E code \in RetCodes :
        LET d == drop_Session(sess, code)
        IN /\ sess' = d.s
           /\ session' = [session EXCEPT !._session_pt = IF code = 0 THEN "null" ELSE @]
           /\ lastOp' = Op("drop_session", "-", None, d.res, d.calls)
    /\ UNCHANGED <<builder, native, owner, built, threads>>

\* the application drops its own Context
DropContext ==
    /\ sess.app_context
    /\ sess' = [release_context(sess) EXCEPT !.app_context = FALSE, !.order = sess.order]
    /\ lastOp' = Op("drop_context", "-", None, Res("Ok", None), <<>>)
    /\ UNCHANGED <<builder, native, owner, session, built, threads>>

\* one Session used from several threads, and the values dropped
NextSession ==
    \/ Build
    \/ DropMessage
    \/ BeginPublish
    \/ EndPublish
    \/ BeginSubscribe
    \/ EndSubscribe
    \/ BeginUnsubscribe
    \/ EndUnsubscribe
    \/ DropSession
    \/ DropContext

SpecSession == InitSession /\ [][NextSession]_vars

\* the operations that carry text across the native boundary
NextText ==
    \/ New
    \/ SetBinaryString
    \/ SetCorrelationId
    \/ Subscribe
    \/ Unsubscribe

SpecText == Init /\ [][NextText]_vars

-----------------------------------------------------------------------------
(* Properties *)

RequiredFields == <<"delivery_mode", "destination", "message">>

\* the native set call build makes for each required field
RequiredSetCalls ==
    <<"solClient_msg_setDeliveryMode", "solClient_msg_setDestination",
      "solClient_msg_setBinaryAttachmentString">>

SetCalls ==
    {"solClient_msg_setDeliveryMode", "solClient_msg_setDestination",
     "solClient_msg_setBinaryAttachmentString", "solClient_msg_setCorrelationId",
     "solClient_msg_setClassOfService"}

\* how many of the calls are calls of fn
Count(calls, fn) == Cardinality({i \in DOMAIN calls : calls[i].fn = fn})

\* how many solClient_msg_alloc calls returned SOLCLIENT_OK
AllocsOk(calls) ==
    Cardinality({i \in DOMAIN calls : calls[i].fn = "solClient_msg_alloc" /\ calls[i].code = 0})

MissingRequired(b) == \E i \in 1..3 : b[RequiredFields[i]] = None

\* the position in RequiredFields of the first required field b lacks
FirstMissing(b) == CHOOSE i \in 1..3 :
    /\ b[RequiredFields[i]] = None
    /\ \A j \in 1..(i - 1) : b[RequiredFields[j]] # None

IsBuild == lastOp.op = "build"

\* C1: a build() of a builder that lacks a required field and returns MissingArgs
\* leaks no handle: it made as many native free calls as successful alloc calls.
C1_MissingArgsLeaksNoHandle ==
    (IsBuild /\ MissingRequired(lastOp.arg[1]) /\ lastOp.res.tag = "MissingArgs")
        => Count(lastOp.calls, "solClient_msg_free") = AllocsOk(lastOp.calls)

\* C2: when the allocation succeeded and a later native set call returned a status
\* that is not Ok, build() returns SolClientError and has freed the handle it
\* allocated with a native free call.
C2_SetFailureFreesHandle ==
    (/\ IsBuild
     /\ AllocsOk(lastOp.calls) = 1
     /\ \E i \in DOMAIN lastOp.calls :
            lastOp.calls[i].fn \in SetCalls /\ lastOp.calls[i].code # 0)
        => /\ lastOp.res.tag = "SolClientError"
           /\ Count(lastOp.calls, "solClient_msg_free") = 1
           /\ native[lastOp.h].frees = 1

\* C3: the handle of every OutboundMessage a build() returned is passed to the
\* native free never twice, not at all while the value is owned, and exactly
\* once when the value has been destroyed (by publish or by going out of scope).
C3_FreedExactlyOnce ==
    \A h \in Handles :
        /\ native[h].frees <= 1
        /\ owner[h] = "owned" => native[h].frees = 0
        /\ owner[h] = "dropped" => native[h].frees = 1

\* a message destroyed by publish, its handle freed once
C3_Witness ==
    /\ lastOp.op = "publish"
    /\ owner[lastOp.h] = "dropped"
    /\ native[lastOp.h].frees = 1

C5_DestinationThreeOutcomes ==
    lastOp.op = "get_destination" =>
        LET status == from_i32(lastOp.calls[1].code)
        IN /\ status = Some("NotFound") => lastOp.res = Res("Ok", None)
           /\ status = Some("Ok") => (lastOp.res.tag = "Ok" /\ lastOp.res.val # None)
           /\ status \notin {Some("NotFound"), Some("Ok")} => lastOp.res.tag = "SolaceError"

\* the operations C6 names
NativeOps ==
    {"build", "get_payload_as_bytes", "get_payload_as_str", "get_correlation_id",
     "get_destination", "subscribe", "unsubscribe", "publish"}

\* C6: an operation whose native call returned a code outside the known set does
\* not return a success value (the free call of a drop returns nothing to build on).
C6_UnknownCodeNeverSuccess ==
    (/\ lastOp.op \in NativeOps
     /\ \E i \in DOMAIN lastOp.calls :
            /\ lastOp.calls[i].fn # "solClient_msg_free"
            /\ from_i32(lastOp.calls[i].code) = None)
        => lastOp.res.tag # "Ok"

TextOps == {"set_binary_string", "set_correlation_id", "subscribe", "unsubscribe"}

\* C7: given a byte string that holds a nul byte, set_binary_string,
\* set_correlation_id, subscribe and unsubscribe fail with InvalidArgs and make
\* no native call.
C7_NulRejectedWithoutNativeCall ==
    (lastOp.op \in TextOps /\ HasNul(lastOp.arg[1]))
        => /\ lastOp.res.tag = "InvalidArgs"
           /\ lastOp.calls = <<>>

\* subscribe was given a topic with a nul byte before its last byte
C7_Witness ==
    /\ lastOp.op = "subscribe"
    /\ lastOp.arg[1] = <<0, 97>>
    /\ lastOp.res.tag = "InvalidArgs"

\* C8: when the allocation succeeded, build() returns a message only if delivery
\* mode, destination and payload are all set; if one is unset and every native
\* set call made returned Ok, it returns MissingArgs naming the first unset one
\* in the order delivery_mode, destination, message.
C8_RequiredFields ==
    (IsBuild /\ AllocsOk(lastOp.calls) = 1) =>
        LET b == lastOp.arg[1]
        IN /\ lastOp.res.tag = "Ok" => ~MissingRequired(b)
           /\ (/\ MissingRequired(b)
               /\ \A i \in DOMAIN lastOp.calls : lastOp.calls[i].code = 0)
                  => lastOp.res = Res("MissingArgs", Some(RequiredFields[FirstMissing(b)]))

\* delivery mode and destination were set and applied, the payload was not set
C8_Witness ==
    /\ IsBuild
    /\ lastOp.arg[1].delivery_mode # None
    /\ lastOp.arg[1].destination # None
    /\ lastOp.arg[1].message = None
    /\ lastOp.res = Res("MissingArgs", Some("message"))

\* C9 as claimed: a build() that returns MissingArgs made no native call other
\* than the allocation.
C9_MissingArgsOnlyAlloc ==
    (IsBuild /\ lastOp.res.tag = "MissingArgs")
        => [i \in DOMAIN lastOp.calls |-> lastOp.calls[i].fn] = <<"solClient_msg_alloc">>

\* C9 amended: a build() that returns MissingArgs(field) made the allocation and
\* then the set calls of just the required fields that come before the missing
\* one, in order, each returning Ok: no set call for the missing field, for a
\* later required field, for the correlation id or for the class of service.
C9_MissingArgsCallsPrecedingOnly ==
    (IsBuild /\ lastOp.res.tag = "MissingArgs") =>
        LET k == FirstMissing(lastOp.arg[1])
        IN /\ lastOp.res.val = Some(RequiredFields[k])
           /\ [i \in DOMAIN lastOp.calls |-> lastOp.calls[i].fn]
                = <<"solClient_msg_alloc">> \o SubSeq(RequiredSetCalls, 1, k - 1)
           /\ \A i \in DOMAIN lastOp.calls : lastOp.calls[i].code = 0

\* the payload is the missing field while the correlation id and class of service are set
C9_Witness ==
    /\ IsBuild
    /\ lastOp.res = Res("MissingArgs", Some("message"))
    /\ lastOp.arg[1].correlation_id # None
    /\ lastOp.arg[1].class_of_service # None
    /\ Len(lastOp.calls) = 3

\* C10: reading the destination of a built message, the native get returning Ok,
\* gives Ok(Some(d)) with d the kind and name the builder's last set_destination
\* was given.
C10_DestinationRoundTrip ==
    (lastOp.op = "get_destination" /\ lastOp.calls[1].code = 0)
        => lastOp.res = Res("Ok", Some(built[lastOp.h][1].destination[1]))

\* a queue destination with a two-byte name was read back
C10_Witness ==
    /\ lastOp.op = "get_destination"
    /\ lastOp.calls[1].code = 0
    /\ lastOp.res = Res("Ok", Some([dest_type |-> "Queue", dest |-> <<97, 98, 0>>]))

\* C11 as claimed: reading the correlation id of a built message, the native get
\* returning Ok, gives Ok with exactly the id the builder's last
\* set_correlation_id was given, for every id without a nul byte.
C11_CorrelationIdRoundTrip ==
    (lastOp.op = "get_correlation_id" /\ lastOp.calls[1].code = 0)
        => lastOp.res = Res("Ok", Some(CStrRead(built[lastOp.h][1].correlation_id[1])))

\* C11 amended: the same for every id without a nul byte that is valid UTF-8;
\* for an id that is not valid UTF-8 get_correlation_id returns Err.
C11_CorrelationIdRoundTripUtf8 ==
    (lastOp.op = "get_correlation_id" /\ lastOp.calls[1].code = 0) =>
        LET id == CStrRead(built[lastOp.h][1].correlation_id[1])
        IN IF IsUtf8(id) THEN lastOp.res = Res("Ok", Some(id))
           ELSE lastOp.res.tag = "SolaceError"

\* a two-byte id was read back from a message whose payload is another text
C11_Witness ==
    /\ lastOp.op = "get_correlation_id"
    /\ lastOp.calls[1].code = 0
    /\ built[lastOp.h][1].message = Some(<<0>>)
    /\ lastOp.res = Res("Ok", Some(<<97, 97>>))

TextAccessors == {"get_payload_as_str", "get_correlation_id"}

\* what the accessor of lastOp returns for this message when the native read fails
ReadFailureOf(op, m) ==
    IF op = "get_payload_as_str" THEN get_payload_as_str(m, -1)
    ELSE get_correlation_id(m, -1)

\* C12: a text accessor whose native read returned Ok but whose bytes are not
\* valid UTF-8 returns an error that differs from the error it returns when the
\* native read fails.
C12_EncodingErrorDiffersFromReadError ==
    (/\ lastOp.op \in TextAccessors
     /\ lastOp.calls[1].code = 0
     /\ lastOp.res.tag # "Ok")
        => lastOp.res # ReadFailureOf(lastOp.op, native[lastOp.h])

\* the error variant and the native call of subscribe and of unsubscribe
FailureOf(op) == IF op = "subscribe" THEN "SubscriptionFailure" ELSE "UnsubscriptionFailure"
NativeCallOf(op) ==
    IF op = "subscribe" THEN "solClient_session_topicSubscribe"
    ELSE "solClient_session_topicUnsubscribe"

\* a String as its code points: the text of bytes, U+FFFD for a byte that is not text
TextOf(bytes) == [i \in 1..Len(bytes) |-> IF bytes[i] < 128 THEN bytes[i] ELSE 65533]

\* C13 as claimed: for a topic without a nul byte, subscribe / unsubscribe makes
\* exactly one native call, returns Ok(()) exactly when its status is Ok, and
\* otherwise returns its failure variant carrying that same topic.
C13_SubscribeMapsStatus ==
    (lastOp.op \in {"subscribe", "unsubscribe"} /\ ~HasNul(lastOp.arg[1])) =>
        /\ Len(lastOp.calls) = 1
        /\ lastOp.calls[1].fn = NativeCallOf(lastOp.op)
        /\ lastOp.res = IF from_i32(lastOp.calls[1].code) = Some("Ok")
                        THEN Res("Ok", None)
                        ELSE Res(FailureOf(lastOp.op), Some(lastOp.arg[1]))

\* C13 amended: the same, the failure carrying the topic decoded lossily: the
\* topic itself when it is valid UTF-8, else with U+FFFD for each invalid byte.
C13_SubscribeMapsStatusLossy ==
    (lastOp.op \in {"subscribe", "unsubscribe"} /\ ~HasNul(lastOp.arg[1])) =>
        /\ Len(lastOp.calls) = 1
        /\ lastOp.calls[1].fn = NativeCallOf(lastOp.op)
        /\ lastOp.res = IF from_i32(lastOp.calls[1].code) = Some("Ok")
                        THEN Res("Ok", None)
                        ELSE Res(FailureOf(lastOp.op), Some(TextOf(lastOp.arg[1])))
        /\ IsUtf8(lastOp.arg[1]) => TextOf(lastOp.arg[1]) = lastOp.arg[1]

\* unsubscribe of a two-byte text topic failed with a code outside the enum
C13_Witness ==
    /\ lastOp.op = "unsubscribe"
    /\ lastOp.calls = <<Call("solClient_session_topicUnsubscribe", 99)>>
    /\ lastOp.res = Res("UnsubscriptionFailure", Some(<<97, 97>>))

\* C14: publish returns Ok(()) when the native send status is Ok and panics (the
\* assertion fails) for every other status; it never returns Err.
C14_PublishOkOrPanic ==
    lastOp.op = "publish" =>
        /\ lastOp.calls[1].fn = "solClient_session_sendMsg"
        /\ lastOp.res = IF from_i32(lastOp.calls[1].code) = Some("Ok")
                        THEN Res("Ok", None)
                        ELSE Res("Panic", None)

\* the native send returned SOLCLIENT_IN_PROGRESS and publish panicked
C14_Witness ==
    /\ lastOp.op = "publish"
    /\ lastOp.calls[1].code = 2
    /\ lastOp.res.tag = "Panic"

Fns(calls) == [i \in DOMAIN calls |-> calls[i].fn]

\* the native calls a build of b makes when every call returns Ok and no
\* required field is missing
ExpectedCalls(b) ==
    <<"solClient_msg_alloc">> \o RequiredSetCalls
        \o (IF b.correlation_id # None THEN <<"solClient_msg_setCorrelationId">> ELSE <<>>)
        \o (IF b.class_of_service # None THEN <<"solClient_msg_setClassOfService">> ELSE <<>>)

\* C18: build() makes its native calls in the order alloc, set delivery mode, set
\* destination, set payload, set correlation id (if set), set class of service
\* (if set); a call is made only if every earlier one returned Ok, and a status
\* that is not Ok ends build at once: MessageAlocFailure for alloc (whatever the
\* builder holds), SolClientError for a set call.
C18_BuildCallOrder ==
    IsBuild =>
        LET n == Len(lastOp.calls)
        IN /\ n >= 1
           /\ n <= Len(ExpectedCalls(lastOp.arg[1]))
           /\ Fns(lastOp.calls) = SubSeq(ExpectedCalls(lastOp.arg[1]), 1, n)
           /\ \A i \in 1..(n - 1) : lastOp.calls[i].code = 0
           /\ lastOp.calls[n].code # 0 =>
                lastOp.res = Res(IF n = 1 THEN "MessageAlocFailure" ELSE "SolClientError", None)

\* the correlation id's set call failed while a class of service was set
C18_Witness ==
    /\ IsBuild
    /\ lastOp.arg[1].class_of_service # None
    /\ Len(lastOp.calls) = 5
    /\ lastOp.calls[5] = Call("solClient_msg_setCorrelationId", -1)
    /\ lastOp.res.tag = "SolClientError"

\* C19: build() calls the native set-correlation-id only if the builder holds a
\* correlation id and the native set-class-of-service only if it holds a class
\* of service; a successful build of a builder with only the three required
\* fields makes exactly the calls alloc, set delivery mode, set destination,
\* set payload.
C19_UnsetOptionalsNotApplied ==
    IsBuild =>
        LET b == lastOp.arg[1]
        IN /\ Count(lastOp.calls, "solClient_msg_setCorrelationId") > 0
                => b.correlation_id # None
           /\ Count(lastOp.calls, "solClient_msg_setClassOfService") > 0
                => b.class_of_service # None
           /\ (b.correlation_id = None /\ b.class_of_service = None /\ lastOp.res.tag = "Ok")
                => /\ Fns(lastOp.calls) = <<"solClient_msg_alloc">> \o RequiredSetCalls
                   /\ native[lastOp.h].correlation_id = None
                   /\ native[lastOp.h].class_of_service = None

\* a build of only the three required fields succeeded
C19_Witness ==
    /\ IsBuild
    /\ lastOp.res.tag = "Ok"
    /\ lastOp.arg[1].correlation_id = None
    /\ lastOp.arg[1].class_of_service = None
    /\ Len(lastOp.calls) = 4

\* the native calls that operate on a message handle
MsgUseCalls ==
    SetCalls \cup
    {"solClient_msg_getBinaryAttachmentPtr", "solClient_msg_getBinaryAttachmentString",
     "solClient_msg_getCorrelationId", "solClient_msg_getDestination",
     "solClient_session_sendMsg"}

\* C17: every native set, get or send call is made on a handle that is allocated
\* and has not been passed to the native free: the handle was live when the
\* operation began (or, in build, an earlier call of the operation allocated
\* it) and no earlier call of the operation freed it; so publish frees the
\* handle only after its native send.
C17_NoUseAfterFree ==
    [][ \A i \in DOMAIN lastOp'.calls :
            lastOp'.calls[i].fn \in MsgUseCalls =>
                /\ lastOp'.h \in Handles
                /\ IF lastOp'.op = "build"
                   THEN /\ native[lastOp'.h].st = "unalloc"
                        /\ i > 1
                        /\ lastOp'.calls[1] = Call("solClient_msg_alloc", 0)
                   ELSE /\ native[lastOp'.h].st = "alloc"
                        /\ native[lastOp'.h].frees = 0
                        /\ owner[lastOp'.h] = "owned"
                /\ \A j \in 1..(i - 1) : lastOp'.calls[j].fn # "solClient_msg_free"
      ]_vars

\* publish panicked on a failed send and the unwinding then freed the handle
C17_Witness ==
    /\ lastOp.op = "publish"
    /\ lastOp.calls = <<Call("solClient_session_sendMsg", -1), Call("solClient_msg_free", 0)>>
    /\ native[lastOp.h].st = "freed"


\* C15: when the native free or the native session destroy returns a status
\* other than Ok, the destructor has made that one native call, once, has not
\* panicked, and the value is destroyed all the same.
C15_DropSwallowsFailure ==
    /\ (lastOp.op = "drop" /\ from_i32(lastOp.calls[1].code) # Some("Ok")) =>
            /\ Fns(lastOp.calls) = <<"solClient_msg_free">>
            /\ lastOp.res.tag = "Ok"
            /\ owner[lastOp.h] = "dropped"
            /\ native[lastOp.h].frees = 1
    /\ (lastOp.op = "drop_session" /\ from_i32(lastOp.calls[1].code) # Some("Ok")) =>
            /\ Fns(lastOp.calls) = <<"solClient_session_destroy">>
            /\ lastOp.res.tag = "Ok"
            /\ sess.value = "dropped"
            /\ sess.destroys = 1

\* the message free failed, and then the session destroy failed
C15_Witness ==
    /\ lastOp.op = "drop_session"
    /\ lastOp.calls = <<Call("solClient_session_destroy", -1)>>
    /\ sess.value = "dropped"
    /\ \E h \in Handles : owner[h] = "dropped" /\ native[h].st = "alloc" /\ native[h].frees = 1

\* C16 (amended): dropping a Session calls the native session destroy before
\* the Session's Context reference is released; the Context is alive while the
\* Session is, and is never destroyed before session destroy has been called.
C16_DestroyCalledBeforeContextReleased ==
    /\ sess.value = "dropped" =>
            sess.order = <<"solClient_session_destroy", "context_release">>
    /\ sess.value = "owned" => (sess.context = "alive" /\ sess.context_refs >= 1)
    /\ sess.context = "destroyed" => sess.destroys >= 1

\* C16 as stated: in addition, the Context is never destroyed while the native
\* session created against it is still alive.
C16_ContextNeverOutlivedBySession ==
    /\ C16_DestroyCalledBeforeContextReleased
    /\ sess.context = "destroyed" => sess.native = "destroyed"

\* the Session held the last Context reference and its destroy call failed
C16_Witness ==
    /\ lastOp.op = "drop_session"
    /\ lastOp.calls = <<Call("solClient_session_destroy", -1)>>
    /\ ~sess.app_context
    /\ sess.context = "destroyed"
    /\ sess.native = "alive"

\* C20: under every interleaving of publish, subscribe and unsubscribe on one
\* shared Session, no call changes the Session's fields or the native session;
\* the destroy call is made only by the drop of the Session, once, with no call
\* in progress.
C20_NoMutableWrapperState ==
    [][ /\ (\/ session' # session
            \/ sess'.destroys # sess.destroys
            \/ sess'.native # sess.native
            \/ sess'.value # sess.value) =>
                /\ lastOp'.op = "drop_session"
                /\ sess.value = "owned"
                /\ sess'.value = "dropped"
                /\ sess.destroys = 0
                /\ sess'.destroys = 1
                /\ \A t \in Threads : threads[t] = Idle
        /\ (\E t \in Threads : threads'[t] # threads[t]) =>
                (session' = session /\ sess' = sess)
      ]_vars

\* two threads are inside calls on the Session while a third call has returned
C20_Witness ==
    /\ threads["t1"].op = "publish"
    /\ threads["t2"].op = "unsubscribe"
    /\ lastOp.op = "subscribe"
    /\ lastOp.calls # <<>>
    /\ sess = SessInit
    /\ session = [_session_pt |-> "s1", context |-> "ctx"]

====
